---- MODULE Spec2Model ----
(***************************************************************************)
(* Model of the video assembly engine of EinsteinCoder-Project2.0:         *)
(*   utils/ffmpeg_utils.py        concatenate_videos                       *)
(*   media_processing/video_editor.py  VideoEditor.assemble_base_video     *)
(*   write_all_project_files.py   combine_and_edit_clips                   *)
(*   pipeline.py                  generate_video_pipeline                  *)
(*                                                                         *)
(* Time is counted in ticks of half a second, so that the default          *)
(* transition duration (0.5 s) and the duration tolerance (1.0 s) are both *)
(* whole numbers.  ffmpeg and ffprobe are external processes: every call   *)
(* of one is a nondeterministic choice between its outcomes.               *)
(***************************************************************************)
EXTENDS Integers, Sequences, FiniteSets, TLC

\* ---------------------------------------------------------------- bounds
MaxClips == 2
MaxDur == 3
MaxTargetS == 2
MaxTrans == 2
MaxNarration == 4
MaxSecond == 2
MaxCandidates == 2
MaxAssets == 2
MaxFields == 3
MaxSide == 3

\* largest max_attempts and delay_seconds given to the retry decorator
MaxAttempts == 3

MaxDelay == 2

\* ------------------------------------------------------ program constants
\* abs(actual_duration - final_video_duration_s) > 1.0  (1.0 s = 2 ticks)
Tolerance == 2
\* transition_duration: float = 0.5  (0.5 s = 1 tick)
DefaultTransitionDuration == 1
\* get_video_duration returns None when the probe fails
NoDuration == -1

\* target_video_duration = 60 when the narration's duration is None
FallbackDuration == 60

\* VideoTransitionMode values, as passed by transition_mode.value
TransitionModes == {"Fade", "Crossfade", "Slide", "None"}
\* VideoConcatMode
ConcatModes == {"RANDOM_CONCATENATION", "SEQUENTIAL_CONCATENATION"}
\* the two callers of concatenate_videos
Callers == {"assemble_base_video", "combine_and_edit_clips"}

\* ----------------------------------------------------------- pure helpers
Min(a, b) == IF a <= b THEN a ELSE b

Abs(a) == IF a >= 0 THEN a ELSE 0 - a

\* seconds to ticks
TicksOf(s) == 2 * s

\* str.lower() on the transition mode values
Lower(s) ==
  CASE s = "Fade" -> "fade"
    [] s = "Crossfade" -> "crossfade"
    [] s = "Slide" -> "slide"
    [] s = "None" -> "none"
    [] OTHER -> s

\* the transition argument each caller hands to concatenate_videos
TransitionArg(c, mode) ==
  IF c = "assemble_base_video" THEN mode ELSE Lower(mode)

\* the transition_duration argument each caller hands to concatenate_videos
TransitionDurationArg(c, d) ==
  IF c = "assemble_base_video" THEN d ELSE DefaultTransitionDuration

\* math.ceil(a / b) for a >= 0, b > 0
CeilDivFloor(a, b) == a \div b

CeilDiv(a, b) == (a + b - 1) \div b

\* num_loops = math.ceil(remaining_duration / last_clip_duration)
NumLoopsOne(remaining, last) == 1

NumLoops(remaining, last) == CeilDiv(remaining, last)

\* ffmpeg -stream_loop (n-1) -i clip -c copy -t t: n plays of the clip, cut at t
LoopedDuration(n, clipdur, t) == Min(n * clipdur, t)

\* ffmpeg -ss 0 -t t -c copy: the head of the input, at most t long
TrimDurationNoCut(actual, t) == actual

TrimDuration(actual, t) == Min(actual, t)

\* run_shell_command(cmd, check_error=True): a non-zero exit raises
\* RuntimeError, so the caller returns only when the command succeeded
CheckedCommandLenient(ok) == "returned"

CheckedCommand(ok) == IF ok THEN "returned" ELSE "raised"

\* the index of the clip the loop segment is made from: final_clips_for_concat[-1]
LastClipFirst(scaled) == scaled[1]

LastClip(scaled) == scaled[Len(scaled)]

\* the overlap the concat command applies at the join of two clips of durations
\* a and b: both branches use the concat demuxer, which abuts the files
JoinOverlapXfade(transition, d, a, b) ==
  IF Lower(transition) \in {"fade", "crossfade"} THEN d ELSE 0

JoinOverlapAlways(transition, d, a, b) == d

JoinOverlapSlide(transition, d, a, b) ==
  IF Lower(transition) = "slide" THEN d ELSE 0

JoinOverlap(transition, d, a, b) == 0

RECURSIVE SumDur(_)
SumDur(s) == IF s = <<>> THEN 0 ELSE s[1].dur + SumDur(Tail(s))

RECURSIVE SumOverlap(_, _, _)
SumOverlap(s, transition, d) ==
  IF Len(s) < 2 THEN 0
  ELSE JoinOverlap(transition, d, s[1].dur, s[2].dur)
       + SumOverlap(Tail(s), transition, d)

\* the duration of the file the concat command writes
CompositeDuration(s, transition, d) == SumDur(s) - SumOverlap(s, transition, d)

\* the concat command: stream copy for 'none', re-encode otherwise
ConcatCmd(transition) == IF transition = "none" THEN "copy" ELSE "reencode"

\* [p for p in video_paths if os.path.exists(p)], as indices into the input
RECURSIVE ExistingFrom(_, _)
ExistingFrom(order, clips) ==
  IF order = <<>> THEN <<>>
  ELSE IF clips[order[1]].exists
       THEN <<order[1]>> \o ExistingFrom(Tail(order), clips)
       ELSE ExistingFrom(Tail(order), clips)

\* the orders random.shuffle can leave a list of n items in
Perms(n) ==
  {p \in [1..n -> 1..n] : \A a, b \in 1..n : a # b => p[a] # p[b]}

Identity(n) == [k \in 1..n |-> k]

\* the orders random.shuffle can leave the list `seq` in
PermsOfSeq(seq) ==
  {[k \in 1..Len(seq) |-> seq[p[k]]] : p \in Perms(Len(seq))}

\* the randomize_order argument of concatenate_videos: neither caller passes
\* it, so it keeps its default, False
RandomizeOrderArgSet(c) == TRUE

RandomizeOrderArg(c) == FALSE

\* the orders the caller hands over: shuffled for RANDOM_CONCATENATION, as
\* given otherwise
OrdersFor(mode, n) ==
  IF mode = "RANDOM_CONCATENATION" THEN Perms(n) ELSE {Identity(n)}

Clip == [dur : 1..MaxDur, exists : {TRUE}] \cup [dur : {1}, exists : {FALSE}]

ClipLists == UNION {[1..n -> Clip] : n \in 0..MaxClips}

\* ------------------------------------------------------------------ state
VARIABLES
  caller,                  \* which function calls concatenate_videos
  video_clip_paths,        \* the clips given: [dur, exists]
  final_video_duration_s,  \* the target, in ticks
  transition_mode,
  transition_duration,
  concat_mode,
  pc,                      \* the position in the call
  video_paths,             \* the order handed to concatenate_videos (indices)
  existing_video_paths,
  i,                       \* the scaling loop's index
  temp_scaled_videos,      \* indices of the clips scaled successfully
  scale_failed,            \* the clips whose scale command exited non-zero
  current_total_duration,
  remaining_duration,
  num_loops,
  loop_status,             \* "none", "looped", "probe_failed", "loop_failed"
  final_clips_for_concat,  \* [kind, src, dur]
  concat_cmd,
  composite,               \* duration of the concat output, NoDuration if none
  actual_duration,         \* the probe of the output in assemble_base_video
  trimmed,
  result,                  \* "pending", "returned", "None", "raised"
  result_duration,
  \* generate_video_pipeline
  phase,                   \* the phase the run is about to execute
  enable_subtitles,
  narration_duration,      \* the probed narration duration, in ticks
  params_final_video_duration_s,
  final_video_output_path, \* "None", "with_audio", "with_subtitles"
  phases_run,              \* the phases executed, in order
  phases_failed,           \* the phases that failed
  returned,                \* "pending", or the video path returned
  runtime_files,           \* the files present under RUNTIME_BASE_DIR
  cleanup_status,          \* "pending", "complete", "error"
  \* concurrent runs of generate_video_pipeline on one filesystem
  run_pc,                  \* each run's position
  run_second,              \* int(time.time()) as each run read it
  workspace,               \* path -> the run whose content it holds, 0 if absent
  writers,                 \* path -> the runs that have written it
  robbed,                  \* runs that lost a file they had not yet consumed
  \* clip sourcing: source_visual_assets / download_source_clips
  sourcing_fn,             \* which of the two functions sources the clips
  video_source_type,
  num_assets,
  candidates,              \* what the searches / generators offer, in order
  src_pc,                  \* "idle", "gather", "process", "done"
  src_k,                   \* the loop index
  sourced_files,           \* [id, audio, exists, long]
  probe_failed,            \* ids of the sourced files whose probe gave None
  final_processed_clips,
  sourcing_result,         \* "pending", "list", "empty", "raised"
  inject_out,              \* how the last inject_silent_audio_if_needed ended
  silent_audio,            \* its silent_audio file: "absent", "removed", "left"
  \* the probes get_video_duration / get_video_dimensions
  probe_fn,
  path_exists,             \* os.path.exists(video_path)
  ffprobe_exit,            \* how the ffprobe command ended
  ffprobe_stdout,          \* its output, as the fields between 'x'
  probe_out,               \* "pending", "None", "value", "raised"
  check_error,             \* the check_error argument of run_shell_command
  shell_out,               \* "pending", "returned", or the exception raised
  \* the scale/pad command of concatenate_videos on one clip
  iw, ih,                  \* the source's width and height
  target_width, target_height,
  norm_pc,                 \* "idle", "pending", "scaled", "dropped"
  out_size,                \* <<width, height>> of the file written
  picture_size,            \* <<width, height>> of the picture inside it
  \* one call of a function wrapped by the retry decorator
  retry_fn,                \* the wrapped function
  max_attempts, delay_seconds, catch_errors,
  attempt,                 \* the loop variable of wrapper
  calls,                   \* how each invocation of func ended, in order
  sleeps,                  \* number of time.sleep calls taken
  slept_s,                 \* seconds slept in total
  retry_out                \* "pending", "returned", "None", "raised"

asm == <<caller, video_clip_paths, final_video_duration_s, transition_mode,
         transition_duration, concat_mode, pc, video_paths,
         existing_video_paths, i, temp_scaled_videos, scale_failed,
         current_total_duration,
         remaining_duration, num_loops, loop_status, final_clips_for_concat,
         concat_cmd, composite, actual_duration, trimmed, result, result_duration>>

pipe == <<phase, enable_subtitles, narration_duration,
          params_final_video_duration_s, final_video_output_path, phases_run,
          phases_failed, returned, runtime_files, cleanup_status>>

conc == <<run_pc, run_second, workspace, writers, robbed>>

srcv == <<sourcing_fn, video_source_type, num_assets, candidates, src_pc,
          src_k, sourced_files, probe_failed, final_processed_clips,
          sourcing_result, inject_out, silent_audio>>

prb == <<probe_fn, path_exists, ffprobe_exit, ffprobe_stdout, probe_out,
         check_error, shell_out>>

nrm == <<iw, ih, target_width, target_height, norm_pc, out_size,
         picture_size>>

rty == <<retry_fn, max_attempts, delay_seconds, catch_errors, attempt,
         calls, sleeps, slept_s, retry_out>>

vars == <<asm, pipe, conc, srcv, prb, nrm, rty>>

inputs == <<caller, video_clip_paths, final_video_duration_s, transition_mode,
            transition_duration, concat_mode>>

transition == TransitionArg(caller, transition_mode)

target_duration == final_video_duration_s

\* no pipeline run is in progress
PipelineIdle ==
  /\ phase = "idle"
  /\ enable_subtitles = FALSE
  /\ narration_duration = NoDuration
  /\ params_final_video_duration_s = 0
  /\ final_video_output_path = "None"
  /\ phases_run = <<>>
  /\ phases_failed = {}
  /\ returned = "pending"
  /\ runtime_files = {}
  /\ cleanup_status = "pending"

\* the runs of the concurrent specification
Runs == {1, 2}

\* the paths the runs write: fixed names in TEMP_FILES_DIR, and names made
\* from int(time.time()) for the log file and the concatenated output
Paths ==
  {<<"scaled_clip_0">>, <<"looped_last_clip">>, <<"concat_list">>}
    \cup {<<"pipeline_log", t>> : t \in 1..MaxSecond}
    \cup {<<"concatenated", t>> : t \in 1..MaxSecond}

\* no concurrent runs are in progress
ConcurrentIdle ==
  /\ run_pc = [r \in Runs |-> "idle"]
  /\ run_second = [r \in Runs |-> 0]
  /\ workspace = [q \in Paths |-> 0]
  /\ writers = [q \in Paths |-> {}]
  /\ robbed = {}

\* no clip sourcing is in progress
SourcingIdle ==
  /\ sourcing_fn = "download_source_clips"
  /\ video_source_type = "AI_GENERATED_VIDEOS"
  /\ num_assets = 0
  /\ candidates = <<>>
  /\ src_pc = "idle"
  /\ src_k = 1
  /\ sourced_files = <<>>
  /\ probe_failed = {}
  /\ final_processed_clips = <<>>
  /\ sourcing_result = "pending"
  /\ inject_out = "pending"
  /\ silent_audio = "absent"

\* no probe is in progress
ProbeIdle ==
  /\ probe_fn = "get_video_duration"
  /\ path_exists = FALSE
  /\ ffprobe_exit = "nonzero"
  /\ ffprobe_stdout = <<"empty">>
  /\ probe_out = "pending"
  /\ check_error = FALSE
  /\ shell_out = "pending"

\* no clip is being normalized
NormalizeIdle ==
  /\ iw = 1
  /\ ih = 1
  /\ target_width = 1
  /\ target_height = 1
  /\ norm_pc = "idle"
  /\ out_size = <<0, 0>>
  /\ picture_size = <<0, 0>>

\* no wrapped call is in progress
RetryIdle ==
  /\ retry_fn = "func"
  /\ max_attempts = 0
  /\ delay_seconds = 0
  /\ catch_errors = {}
  /\ attempt = 1
  /\ calls = <<>>
  /\ sleeps = 0
  /\ slept_s = 0
  /\ retry_out = "pending"

Init ==
  /\ RetryIdle
  /\ NormalizeIdle
  /\ ProbeIdle
  /\ SourcingIdle
  /\ ConcurrentIdle
  /\ caller \in Callers
  /\ video_clip_paths \in ClipLists
  /\ final_video_duration_s \in {TicksOf(s) : s \in 1..MaxTargetS}
  /\ transition_mode \in TransitionModes
  /\ transition_duration \in
       {TransitionDurationArg(caller, d) : d \in 1..MaxTrans}
  /\ concat_mode \in ConcatModes
  /\ pc = "call"
  /\ video_paths = <<>>
  /\ existing_video_paths = <<>>
  /\ i = 1
  /\ temp_scaled_videos = <<>>
  /\ scale_failed = {}
  /\ current_total_duration = 0
  /\ remaining_duration = 0
  /\ num_loops = 0
  /\ loop_status = "none"
  /\ final_clips_for_concat = <<>>
  /\ concat_cmd = "none"
  /\ composite = NoDuration
  /\ actual_duration = NoDuration
  /\ trimmed = FALSE
  /\ result = "pending"
  /\ result_duration = NoDuration
  /\ PipelineIdle

\* assemble_base_video / combine_and_edit_clips up to the call of
\* concatenate_videos, and concatenate_videos up to its scaling loop
Call ==
  /\ pc = "call"
  /\ \E order \in OrdersFor(concat_mode, Len(video_clip_paths)) :
       /\ video_paths' = order
       /\ existing_video_paths' \in
            IF RandomizeOrderArg(caller)
            THEN PermsOfSeq(ExistingFrom(order, video_clip_paths))
            ELSE {ExistingFrom(order, video_clip_paths)}
       /\ IF video_clip_paths = <<>>
             \/ ExistingFrom(order, video_clip_paths) = <<>>
          THEN pc' = "done" /\ result' = "None"
          ELSE pc' = "scale" /\ result' = result
  /\ UNCHANGED <<pipe, conc, srcv, prb, nrm, rty>>
  /\ UNCHANGED <<inputs, i, temp_scaled_videos, scale_failed, current_total_duration,
                 remaining_duration, num_loops, loop_status,
                 final_clips_for_concat, concat_cmd, composite,
                 actual_duration, trimmed, result_duration>>

\* a clip whose scale command fails is skipped (continue), the others appended
KeepIfScaledAbort(scaled, src, scale_ok) ==
  IF scale_ok THEN Append(scaled, src) ELSE <<>>

KeepIfScaled(scaled, src, scale_ok) ==
  IF scale_ok THEN Append(scaled, src) ELSE scaled

\* one iteration of the scaling loop
ScaleClip ==
  /\ pc = "scale"
  /\ i <= Len(existing_video_paths)
  /\ \E scale_ok \in BOOLEAN, probe_ok \in BOOLEAN :
       LET src == existing_video_paths[i]
           probed == IF probe_ok THEN video_clip_paths[src].dur ELSE 0
       IN /\ temp_scaled_videos' =
               KeepIfScaled(temp_scaled_videos, src, scale_ok)
          /\ IF scale_ok
             THEN /\ current_total_duration' = current_total_duration + probed
                  /\ UNCHANGED scale_failed
             ELSE /\ probe_ok
                  /\ scale_failed' = scale_failed \cup {src}
                  /\ UNCHANGED current_total_duration
  /\ i' = i + 1
  /\ UNCHANGED <<pipe, conc, srcv, prb, nrm, rty>>
  /\ UNCHANGED <<inputs, pc, video_paths, existing_video_paths,
                 remaining_duration, num_loops, loop_status,
                 final_clips_for_concat, concat_cmd, composite,
                 actual_duration, trimmed, result, result_duration>>

ScaledEntry(src) ==
  [kind |-> "scaled", src |-> src, dur |-> video_clip_paths[src].dur]

ScaledEntries == [k \in 1..Len(temp_scaled_videos) |->
                    ScaledEntry(temp_scaled_videos[k])]

\* after the loop: no clip scaled, or the loop extension of the last clip
Reconcile ==
  /\ pc = "scale"
  /\ i > Len(existing_video_paths)
  /\ IF temp_scaled_videos = <<>>
     THEN /\ pc' = "done"
          /\ result' = "None"
          /\ UNCHANGED <<remaining_duration, num_loops, loop_status,
                         final_clips_for_concat>>
     ELSE /\ pc' = "concat"
          /\ result' = result
          /\ IF current_total_duration < target_duration
             THEN \E probe_ok \in BOOLEAN, loop_ok \in BOOLEAN :
                    LET last == LastClip(temp_scaled_videos)
                        lastdur == video_clip_paths[last].dur
                        remaining == target_duration - current_total_duration
                        n == NumLoops(remaining, lastdur)
                    IN /\ remaining_duration' = remaining
                       /\ IF probe_ok
                          THEN /\ num_loops' = n
                               /\ loop_status' =
                                    IF loop_ok THEN "looped" ELSE "loop_failed"
                               /\ final_clips_for_concat' =
                                    IF loop_ok
                                    THEN Append(ScaledEntries,
                                           [kind |-> "looped", src |-> last,
                                            dur |-> LoopedDuration(n, lastdur,
                                                                  remaining)])
                                    ELSE ScaledEntries
                          ELSE /\ loop_ok
                               /\ num_loops' = num_loops
                               /\ loop_status' = "probe_failed"
                               /\ final_clips_for_concat' = ScaledEntries
             ELSE /\ final_clips_for_concat' = ScaledEntries
                  /\ UNCHANGED <<remaining_duration, num_loops, loop_status>>
  /\ UNCHANGED <<pipe, conc, srcv, prb, nrm, rty>>
  /\ UNCHANGED <<inputs, video_paths, existing_video_paths, i,
                 temp_scaled_videos, scale_failed, current_total_duration, concat_cmd,
                 composite, actual_duration, trimmed, result_duration>>

\* the concat list, the concat command and the return of concatenate_videos;
\* combine_and_edit_clips returns what concatenate_videos returns
Concat ==
  /\ pc = "concat"
  /\ concat_cmd' = ConcatCmd(transition)
  /\ \E concat_ok \in BOOLEAN :
       IF concat_ok
       THEN /\ composite' = CompositeDuration(final_clips_for_concat,
                                              transition, transition_duration)
            /\ IF caller = "assemble_base_video"
               THEN pc' = "verify" /\ UNCHANGED <<result, result_duration>>
               ELSE /\ pc' = "done"
                    /\ result' = "returned"
                    /\ result_duration' =
                         CompositeDuration(final_clips_for_concat, transition,
                                           transition_duration)
       ELSE /\ composite' = composite
            /\ pc' = "done"
            /\ result' = "None"
            /\ UNCHANGED result_duration
  /\ UNCHANGED <<pipe, conc, srcv, prb, nrm, rty>>
  /\ UNCHANGED <<inputs, video_paths, existing_video_paths, i,
                 temp_scaled_videos, scale_failed, current_total_duration,
                 remaining_duration, num_loops, loop_status,
                 final_clips_for_concat, actual_duration, trimmed>>

\* assemble_base_video after concatenate_videos returned the output path
Verify ==
  /\ pc = "verify"
  /\ pc' = "done"
  /\ \E probe_ok \in BOOLEAN, trim_ok \in BOOLEAN :
       IF ~probe_ok
       THEN /\ trim_ok
            /\ actual_duration' = NoDuration
            /\ result' = "returned"
            /\ result_duration' = composite
            /\ trimmed' = FALSE
       ELSE /\ actual_duration' = composite
            /\ IF Abs(composite - final_video_duration_s) > Tolerance
               THEN IF trim_ok
                    THEN /\ trimmed' = TRUE
                         /\ result' = "returned"
                         /\ result_duration' =
                              TrimDuration(composite, final_video_duration_s)
                    ELSE /\ trimmed' = FALSE
                         /\ result' = CheckedCommand(trim_ok)
                         /\ result_duration' = result_duration
               ELSE /\ trim_ok
                    /\ trimmed' = FALSE
                    /\ result' = "returned"
                    /\ result_duration' = composite
  /\ UNCHANGED <<pipe, conc, srcv, prb, nrm, rty>>
  /\ UNCHANGED <<inputs, video_paths, existing_video_paths, i,
                 temp_scaled_videos, scale_failed, current_total_duration,
                 remaining_duration, num_loops, loop_status,
                 final_clips_for_concat, concat_cmd, composite>>

Next == Call \/ ScaleClip \/ Reconcile \/ Concat \/ Verify

Spec == Init /\ [][Next]_vars

\* ------------------------------------------------- properties of assembly
\* concatenate_videos has built its concat list
ListBuilt == pc \in {"concat", "verify", "done"} /\ final_clips_for_concat # <<>>

\* the concat command has written the composite
Composed == composite # NoDuration

HasLoopSegment ==
  /\ final_clips_for_concat # <<>>
  /\ final_clips_for_concat[Len(final_clips_for_concat)].kind = "looped"

\* the joins of the concat list whose transition would not fit: the transition
\* lasts at least as long as one of the two clips joined
DegenerateJoins ==
  {k \in 1..(Len(final_clips_for_concat) - 1) :
     transition_duration >= Min(final_clips_for_concat[k].dur,
                                final_clips_for_concat[k + 1].dur)}

\* the position of clip index x in the order handed to concatenate_videos
PosIn(seq, x) == CHOOSE k \in 1..Len(seq) : seq[k] = x

\* C1: whenever assemble_base_video returns a video, its duration is within
\* 1.0 s of the target, whatever the scale, probe, loop and trim commands did.
C1_ReturnedWithinTolerance ==
  (caller = "assemble_base_video" /\ result = "returned")
    => Abs(result_duration - final_video_duration_s) <= Tolerance

\* C2: under Fade or Crossfade with N clips and transition duration d the
\* composite lasts sum(clip durations) - (N-1)*d.
C2_CrossfadeShrinkage ==
  (Composed /\ transition_mode \in {"Fade", "Crossfade"})
    => composite = SumDur(final_clips_for_concat)
                   - (Len(final_clips_for_concat) - 1) * transition_duration

\* C3 as stated: under None the composite lasts exactly the sum of the
\* durations of the clips given to concatenate_videos.
C3_SumOfInputClips ==
  (Composed /\ transition_mode = "None")
    => composite = SumDur(video_clip_paths)

\* C3 as amended: under None the composite lasts exactly the sum of the
\* durations of the clips of the concat list (the scaled clips and the loop
\* segment, if one was appended), nothing being added or removed at a join;
\* that is the sum of the given clips when every one of them exists and was
\* scaled and no loop segment was appended.
C3_SumOfConcatList ==
  (Composed /\ transition_mode = "None")
    => /\ composite = SumDur(final_clips_for_concat)
       /\ (Len(temp_scaled_videos) = Len(video_clip_paths) /\ ~HasLoopSegment)
            => composite = SumDur(video_clip_paths)

C3_Witness ==
  /\ Composed
  /\ transition_mode = "None"
  /\ Len(final_clips_for_concat) >= 2
  /\ HasLoopSegment

C5_DegenerateJoinHardCut ==
  Composed =>
    /\ \A k \in DegenerateJoins :
         JoinOverlap(transition, transition_duration,
                     final_clips_for_concat[k].dur,
                     final_clips_for_concat[k + 1].dur) = 0
    /\ composite >= SumDur(final_clips_for_concat)
                    - (Len(final_clips_for_concat) - 1
                       - Cardinality(DegenerateJoins)) * transition_duration
    /\ composite > 0
    /\ (DegenerateJoins # {} /\ pc = "done"
        /\ caller = "combine_and_edit_clips") => result = "returned"

C5_Witness ==
  /\ Composed
  /\ transition_mode \in {"Fade", "Crossfade"}
  /\ DegenerateJoins # {}
  /\ \E k \in DegenerateJoins : final_clips_for_concat[k + 1].kind = "scaled"
  /\ result = "returned"

C7_LoopOnlyLastClip ==
  ListBuilt =>
    LET n == Len(temp_scaled_videos)
        m == Len(final_clips_for_concat)
    IN /\ m \in {n, n + 1}
       /\ \A k \in 1..n :
            /\ final_clips_for_concat[k].kind = "scaled"
            /\ final_clips_for_concat[k].src = temp_scaled_videos[k]
       /\ \A k \in 1..(n - 1) :
            PosIn(video_paths, temp_scaled_videos[k])
              < PosIn(video_paths, temp_scaled_videos[k + 1])
       /\ m = n + 1 =>
            /\ final_clips_for_concat[m].kind = "looped"
            /\ final_clips_for_concat[m].src = temp_scaled_videos[n]

C7_Witness ==
  /\ ListBuilt
  /\ Len(temp_scaled_videos) >= 2
  /\ HasLoopSegment
  /\ temp_scaled_videos[1] # temp_scaled_videos[2]
  /\ video_paths # Identity(Len(video_paths))

\* the number of times the last scaled clip is played in the concat list
PlaysOfLastClip == 1 + (IF HasLoopSegment THEN num_loops ELSE 0)

C19_OrderedOrShuffledOnce ==
  pc # "call" =>
    LET n == Len(video_clip_paths)
    IN /\ video_paths \in Perms(n)
       /\ concat_mode = "SEQUENTIAL_CONCATENATION" => video_paths = Identity(n)
       /\ existing_video_paths = ExistingFrom(video_paths, video_clip_paths)
       /\ \A k \in 1..(Len(temp_scaled_videos) - 1) :
            PosIn(video_paths, temp_scaled_videos[k])
              < PosIn(video_paths, temp_scaled_videos[k + 1])
       /\ (ListBuilt /\ Len(temp_scaled_videos) = n) =>
            \A k \in 1..n : final_clips_for_concat[k].src = video_paths[k]

C19_Witness ==
  /\ concat_mode = "RANDOM_CONCATENATION"
  /\ Composed
  /\ video_paths = <<2, 1>>
  /\ Len(final_clips_for_concat) = 2
  /\ final_clips_for_concat[1].src = 2
  /\ final_clips_for_concat[2].src = 1

\* C21: under Slide the concat list and the composite are what they are under
\* None for the same clips and target: the list is the scaled clips and the
\* loop segment if one was made, no overlap is taken at any join, and the
\* composite lasts what it lasts with the None argument.
C21_SlideComposesAsNone ==
  (Composed /\ transition_mode \in {"Slide", "None"}) =>
    /\ composite = CompositeDuration(final_clips_for_concat,
                                     TransitionArg(caller, "None"),
                                     transition_duration)
    /\ composite = SumDur(final_clips_for_concat)
    /\ \A k \in 1..(Len(final_clips_for_concat) - 1) :
         JoinOverlap(transition, transition_duration,
                     final_clips_for_concat[k].dur,
                     final_clips_for_concat[k + 1].dur) = 0
    /\ final_clips_for_concat \in
         {ScaledEntries,
          Append(ScaledEntries,
                 [kind |-> "looped", src |-> LastClip(temp_scaled_videos),
                  dur |-> target_duration - current_total_duration])}

C21_Witness ==
  /\ Composed
  /\ transition_mode = "Slide"
  /\ Len(temp_scaled_videos) = 2
  /\ HasLoopSegment
  /\ composite = SumDur(final_clips_for_concat)

\* C11: a failed trim of the assembled video is fatal to assemble_base_video
\* (it raises and returns no video), and a video whose probed duration is
\* more than 1.0 s from the target is never returned without the trim.
C11_TrimFailureFatal ==
  (/\ caller = "assemble_base_video"
   /\ pc = "done"
   /\ actual_duration # NoDuration
   /\ Abs(actual_duration - final_video_duration_s) > Tolerance)
    => /\ result = "returned" => trimmed
       /\ ~trimmed => (result = "raised" /\ result_duration = NoDuration)

C11_Witness ==
  /\ caller = "assemble_base_video"
  /\ pc = "done"
  /\ actual_duration # NoDuration
  /\ actual_duration - final_video_duration_s > Tolerance
  /\ ~trimmed
  /\ result = "raised"

\* ------------------------------------------------ generate_video_pipeline
\* int(target_video_duration): whole seconds, in ticks
IntSecondsExact(d) == d

IntSeconds(d) == TicksOf(d \div 2)

\* no assembly call is in progress
AssemblyIdle ==
  /\ caller = "combine_and_edit_clips"
  /\ video_clip_paths = <<>>
  /\ final_video_duration_s = 0
  /\ transition_mode = "None"
  /\ transition_duration = DefaultTransitionDuration
  /\ concat_mode = "SEQUENTIAL_CONCATENATION"
  /\ pc = "idle"
  /\ video_paths = <<>>
  /\ existing_video_paths = <<>>
  /\ i = 1
  /\ temp_scaled_videos = <<>>
  /\ scale_failed = {}
  /\ current_total_duration = 0
  /\ remaining_duration = 0
  /\ num_loops = 0
  /\ loop_status = "none"
  /\ final_clips_for_concat = <<>>
  /\ concat_cmd = "none"
  /\ composite = NoDuration
  /\ actual_duration = NoDuration
  /\ trimmed = FALSE
  /\ result = "pending"
  /\ result_duration = NoDuration

\* the runtime directory each file of a run is written to
DirOf(f) ==
  CASE f \in {"downloaded_clips"} -> "video_downloads"
    [] f \in {"narration_audio", "background_music", "final_audio"} -> "audio"
    [] f \in {"scaled_clips", "looped_last_clip", "concat_list",
              "concatenated", "with_audio", "subtitles_ass"} -> "temp_files"
    [] f \in {"final"} -> "output"
    [] f \in {"pipeline_log"} -> "logs"
    [] OTHER -> "images"

\* the directories cleanup_runtime_files removes
RuntimeDirs ==
  {"video_downloads", "audio", "images", "temp_files", "output", "logs"}

\* what concatenate_videos leaves in temp_files_dir when it returns None:
\* nothing was scaled, or the concat command failed after the scaled clips
\* and the concat list (and the loop segment, if made) were written
ConcatLeftovers ==
  {{}, {"scaled_clips", "concat_list"},
   {"scaled_clips", "concat_list", "looped_last_clip"}}

\* setup_runtime_directories and the log file handler precede the try
PipelineInit ==
  /\ RetryIdle
  /\ NormalizeIdle
  /\ ProbeIdle
  /\ AssemblyIdle
  /\ ConcurrentIdle
  /\ SourcingIdle
  /\ phase = "script"
  /\ enable_subtitles \in BOOLEAN
  /\ narration_duration = NoDuration
  /\ params_final_video_duration_s = 0
  /\ final_video_output_path = "None"
  /\ phases_run = <<>>
  /\ phases_failed = {}
  /\ returned = "pending"
  /\ runtime_files = {"pipeline_log"}
  /\ cleanup_status = "pending"

Outcomes == {"ok", "fail", "raise"}

\* what a phase does with the outcome of its step: on "ok" the run goes on to
\* `next`; a failure the code checks for returns (None, log); a failure it
\* tolerates goes on to `next`; an exception reaches the except clause, which
\* returns (None, log).  The finally clause runs on every way out.
AbortOnFailure(name, outcome, next) ==
  /\ phases_run' = Append(phases_run, name)
  /\ phases_failed' = IF outcome = "ok" THEN phases_failed
                      ELSE phases_failed \cup {name}
  /\ IF outcome = "ok"
     THEN phase' = next /\ returned' = returned
     ELSE phase' = "cleanup" /\ returned' = "None"

\* the files a step leaves in the runtime directories
Writes(outcome, files) ==
  runtime_files' = IF outcome = "ok" THEN runtime_files \cup files
                   ELSE runtime_files

TolerateFailure(name, outcome, next) ==
  /\ phases_run' = Append(phases_run, name)
  /\ phases_failed' = IF outcome = "ok" THEN phases_failed
                      ELSE phases_failed \cup {name}
  /\ IF outcome = "raise"
     THEN phase' = "cleanup" /\ returned' = "None"
     ELSE phase' = next /\ returned' = returned

\* 2. script generation
Script ==
  /\ phase = "script"
  /\ \E outcome \in Outcomes : AbortOnFailure("script", outcome, "narration")
                             /\ Writes(outcome, {})
  /\ UNCHANGED <<enable_subtitles, narration_duration,
                 params_final_video_duration_s, final_video_output_path>>
  /\ UNCHANGED <<asm, conc, srcv, prb, nrm, rty, cleanup_status>>

\* 3. narration synthesis; the narration's probed duration becomes the target.
\* A failed probe (None) makes the log line's format raise before the None check.
Narration ==
  /\ phase = "narration"
  /\ \E outcome \in Outcomes, probed \in (1..MaxNarration) \cup {NoDuration} :
       IF outcome = "ok"
       THEN /\ Writes(outcome, {"narration_audio"})
            /\ narration_duration' = probed
            /\ IF probed = NoDuration
               THEN /\ AbortOnFailure("narration", "raise", "sourcing")
                    /\ UNCHANGED params_final_video_duration_s
               ELSE /\ AbortOnFailure("narration", "ok", "sourcing")
                    /\ params_final_video_duration_s' = IntSeconds(probed)
       ELSE /\ probed = NoDuration
            /\ Writes(outcome, {})
            /\ AbortOnFailure("narration", outcome, "sourcing")
            /\ UNCHANGED <<narration_duration, params_final_video_duration_s>>
  /\ UNCHANGED <<enable_subtitles, final_video_output_path>>
  /\ UNCHANGED <<asm, conc, srcv, prb, nrm, rty, cleanup_status>>

\* 4. clip sourcing
Sourcing ==
  /\ phase = "sourcing"
  /\ \E outcome \in Outcomes : AbortOnFailure("sourcing", outcome, "combine")
                             /\ Writes(outcome, {"downloaded_clips"})
  /\ UNCHANGED <<enable_subtitles, narration_duration,
                 params_final_video_duration_s, final_video_output_path>>
  /\ UNCHANGED <<asm, conc, srcv, prb, nrm, rty, cleanup_status>>

\* 5. combine and edit
Combine ==
  /\ phase = "combine"
  /\ \E outcome \in Outcomes, left \in ConcatLeftovers :
       /\ AbortOnFailure("combine", outcome, "music")
       /\ IF outcome = "ok"
          THEN left = {} /\ Writes(outcome, {"concatenated"})
          ELSE runtime_files' = runtime_files \cup left
  /\ UNCHANGED <<enable_subtitles, narration_duration,
                 params_final_video_duration_s, final_video_output_path>>
  /\ UNCHANGED <<asm, conc, srcv, prb, nrm, rty, cleanup_status>>

\* 6. background music download: without music the narration alone is the
\* final audio and the mix is skipped
Music ==
  /\ phase = "music"
  /\ \E outcome \in Outcomes :
       /\ TolerateFailure("music", outcome,
                          IF outcome = "ok" THEN "mix" ELSE "mux")
       /\ Writes(outcome, {"background_music"})
  /\ UNCHANGED <<enable_subtitles, narration_duration,
                 params_final_video_duration_s, final_video_output_path>>
  /\ UNCHANGED <<asm, conc, srcv, prb, nrm, rty, cleanup_status>>

\* 6. combine_audio_tracks
Mix ==
  /\ phase = "mix"
  /\ \E outcome \in Outcomes : AbortOnFailure("mix", outcome, "mux")
                             /\ Writes(outcome, {"final_audio"})
  /\ UNCHANGED <<enable_subtitles, narration_duration,
                 params_final_video_duration_s, final_video_output_path>>
  /\ UNCHANGED <<asm, conc, srcv, prb, nrm, rty, cleanup_status>>

\* 6. add_audio_to_video
Mux ==
  /\ phase = "mux"
  /\ \E outcome \in Outcomes :
       /\ AbortOnFailure("mux", outcome,
                         IF enable_subtitles THEN "subtitle_file" ELSE "copy")
       /\ final_video_output_path' =
            IF outcome = "ok" THEN "with_audio" ELSE final_video_output_path
       /\ Writes(outcome, {"with_audio"})
  /\ UNCHANGED <<enable_subtitles, narration_duration,
                 params_final_video_duration_s>>
  /\ UNCHANGED <<asm, conc, srcv, prb, nrm, rty, cleanup_status>>

\* 7. generate_subtitles_file
SubtitleFile ==
  /\ phase = "subtitle_file"
  /\ \E outcome \in Outcomes :
       /\ TolerateFailure("subtitle_file", outcome,
                          IF outcome = "ok" THEN "subtitle_burn" ELSE "copy")
       /\ Writes(outcome, {"subtitles_ass"})
  /\ UNCHANGED <<enable_subtitles, narration_duration,
                 params_final_video_duration_s, final_video_output_path>>
  /\ UNCHANGED <<asm, conc, srcv, prb, nrm, rty, cleanup_status>>

\* 7. add_subtitles_to_video
SubtitleBurn ==
  /\ phase = "subtitle_burn"
  /\ \E outcome \in Outcomes :
       /\ TolerateFailure("subtitle_burn", outcome, "copy")
       /\ final_video_output_path' =
            IF outcome = "ok" THEN "with_subtitles"
            ELSE final_video_output_path
       /\ Writes(outcome, {"final"})
  /\ UNCHANGED <<enable_subtitles, narration_duration,
                 params_final_video_duration_s>>
  /\ UNCHANGED <<asm, conc, srcv, prb, nrm, rty, cleanup_status>>

\* 8. copy to the drive folder, then return final_video_output_path.  A failed
\* copy is caught and logged; an exception before the inner try is not.
CopyOut ==
  /\ phase = "copy"
  /\ \E outcome \in Outcomes :
       /\ phases_run' = Append(phases_run, "copy")
       /\ phases_failed' = IF outcome = "ok" THEN phases_failed
                           ELSE phases_failed \cup {"copy"}
       /\ phase' = "cleanup"
       /\ returned' = IF outcome = "raise" THEN "None"
                      ELSE final_video_output_path
  /\ UNCHANGED runtime_files
  /\ UNCHANGED <<enable_subtitles, narration_duration,
                 params_final_video_duration_s, final_video_output_path>>
  /\ UNCHANGED <<asm, conc, srcv, prb, nrm, rty, cleanup_status>>

\* the files left when cleanup_runtime_files has removed the directories in
\* `removed`
FilesOutsideNothingRemoved(files, removed) == files

FilesOutside(files, removed) == {f \in files : DirOf(f) \notin removed}

\* finally: cleanup_runtime_files().  It removes the runtime directories one
\* after the other in os.listdir order; an exception from a removal ends the
\* loop, is logged and swallowed, and the directories not yet reached stay.
Cleanup ==
  /\ phase = "cleanup"
  /\ phase' = "done"
  /\ \E removed \in SUBSET RuntimeDirs :
       /\ removed # RuntimeDirs =>
            FilesOutside(runtime_files, removed) # {}
       /\ runtime_files' = FilesOutside(runtime_files, removed)
       /\ cleanup_status' = IF removed = RuntimeDirs THEN "complete"
                             ELSE "error"
  /\ UNCHANGED <<enable_subtitles, narration_duration,
                 params_final_video_duration_s, final_video_output_path,
                 phases_run, phases_failed, returned>>
  /\ UNCHANGED <<asm, conc, srcv, prb, nrm, rty>>

PipelineNext ==
  \/ Script \/ Narration \/ Sourcing \/ Combine \/ Music \/ Mix \/ Mux
  \/ SubtitleFile \/ SubtitleBurn \/ CopyOut \/ Cleanup

PipelineSpec == PipelineInit /\ [][PipelineNext]_vars

\* ----------------------------------------------- properties of the pipeline
Last(seq) == seq[Len(seq)]

\* C9: the failure of any phase aborts the rest of the run: no later phase is
\* executed and no video path is returned.
C9_FailureAbortsRun ==
  /\ \A k \in 1..(Len(phases_run) - 1) : phases_run[k] \notin phases_failed
  /\ phases_failed # {} => returned \in {"pending", "None"}
  /\ (phases_failed # {} /\ phases_run # <<>>)
       => phase \in {"cleanup", "done"}

PhaseRank(name) ==
  CASE name = "script" -> 2
    [] name = "narration" -> 3
    [] name = "sourcing" -> 4
    [] name = "combine" -> 5
    [] name = "music" -> 6
    [] name = "mix" -> 7
    [] name = "mux" -> 8
    [] name = "subtitle_file" -> 9
    [] name = "subtitle_burn" -> 10
    [] name = "copy" -> 11
    [] OTHER -> 12

\* the phases run so far that the order script, narration, sourcing,
\* combine/edit, audio mux, subtitles, copy-out names (the music download and
\* the mix are steps inside the audio phase)
RECURSIVE NamedPhases(_)
NamedPhases(seq) ==
  IF seq = <<>> THEN <<>>
  ELSE IF seq[1] \in {"music", "mix"} THEN NamedPhases(Tail(seq))
       ELSE <<seq[1]>> \o NamedPhases(Tail(seq))

\* C14: the phases start in the fixed order, each after the phase before it
\* has finished and produced its output.
C14_OrderedAfterOutput ==
  LET named == NamedPhases(phases_run)
  IN \A k \in 2..Len(named) :
       /\ PhaseRank(named[k - 1]) < PhaseRank(named[k])
       /\ named[k - 1] \notin phases_failed

\* clip assembly has been called: the combine phase has run
AssemblyCalled ==
  \E k \in 1..Len(phases_run) : phases_run[k] = "combine"

C10_SubtitleFailureSurfaces ==
  (/\ enable_subtitles
   /\ phases_failed \cap {"subtitle_file", "subtitle_burn"} # {}
   /\ phase = "done")
    => returned = "None"

\* ------------------------------------- concurrent runs on one filesystem
\* the paths run q has written and has yet to read or hand on
Pending(q) ==
  (IF run_pc[q] \in {"loop", "list", "concat"}
   THEN {<<"scaled_clip_0">>} ELSE {})
  \cup (IF run_pc[q] \in {"list", "concat"}
        THEN {<<"looped_last_clip">>} ELSE {})
  \cup (IF run_pc[q] = "concat" THEN {<<"concat_list">>} ELSE {})
  \cup (IF run_pc[q] = "cleanup"
        THEN {<<"concatenated", run_second[q]>>} ELSE {})

\* the runs other than r that lose a file of theirs when r overwrites or
\* deletes the paths in `gone`
RobbedBy(r, gone) ==
  {q \in Runs \ {r} : \E path \in gone \cap Pending(q) : workspace[path] = q}

\* run r writes `path` (ffmpeg -y and open(..., 'w') overwrite what is there)
WritePath(r, path) ==
  /\ workspace' = [workspace EXCEPT ![path] = r]
  /\ writers' = [writers EXCEPT ![path] = @ \cup {r}]
  /\ robbed' = robbed \cup RobbedBy(r, {path})

ConcurrentInit ==
  /\ RetryIdle
  /\ NormalizeIdle
  /\ ProbeIdle
  /\ AssemblyIdle
  /\ PipelineIdle
  /\ SourcingIdle
  /\ run_pc = [r \in Runs |-> "start"]
  /\ run_second = [r \in Runs |-> 0]
  /\ workspace = [q \in Paths |-> 0]
  /\ writers = [q \in Paths |-> {}]
  /\ robbed = {}

\* setup_runtime_directories and the log file pipeline_log_<int(start_time)>
RunStart(r) ==
  /\ run_pc[r] = "start"
  /\ \E t \in 1..MaxSecond :
       /\ run_second' = [run_second EXCEPT ![r] = t]
       /\ WritePath(r, <<"pipeline_log", t>>)
  /\ run_pc' = [run_pc EXCEPT ![r] = "scale"]
  /\ UNCHANGED <<asm, pipe, srcv, prb, nrm, rty>>

\* concatenate_videos: the scaling loop writes scaled_clip_<i>.mp4
RunScale(r) ==
  /\ run_pc[r] = "scale"
  /\ WritePath(r, <<"scaled_clip_0">>)
  /\ run_pc' = [run_pc EXCEPT ![r] = "loop"]
  /\ UNCHANGED <<asm, pipe, srcv, prb, nrm, rty, run_second>>

\* concatenate_videos: the loop extension writes looped_last_clip.mp4 when the
\* clips are shorter than the target
RunLoop(r) ==
  /\ run_pc[r] = "loop"
  /\ \/ WritePath(r, <<"looped_last_clip">>)
     \/ UNCHANGED <<workspace, writers, robbed>>
  /\ run_pc' = [run_pc EXCEPT ![r] = "list"]
  /\ UNCHANGED <<asm, pipe, srcv, prb, nrm, rty, run_second>>

\* concatenate_videos: the concat list is written to concat_list.txt
RunWriteList(r) ==
  /\ run_pc[r] = "list"
  /\ WritePath(r, <<"concat_list">>)
  /\ run_pc' = [run_pc EXCEPT ![r] = "concat"]
  /\ UNCHANGED <<asm, pipe, srcv, prb, nrm, rty, run_second>>

\* concatenate_videos: the concat command reads the list and the clips and
\* writes final_video_<int(time.time())>_concatenated.mp4; on success the
\* scaled clips, the list and the loop segment are removed
RunConcat(r) ==
  /\ run_pc[r] = "concat"
  /\ run_pc' = [run_pc EXCEPT ![r] = "cleanup"]
  /\ \E t \in run_second[r]..MaxSecond, concat_ok \in BOOLEAN :
       LET temps == {<<"scaled_clip_0">>, <<"looped_last_clip">>,
                     <<"concat_list">>}
           out == <<"concatenated", t>>
       IN /\ run_second' = [run_second EXCEPT ![r] = t]
          /\ IF concat_ok /\ workspace[<<"scaled_clip_0">>] # 0
                /\ workspace[<<"concat_list">>] # 0
             THEN /\ workspace' = [q \in Paths |->
                                     IF q = out THEN r
                                     ELSE IF q \in temps THEN 0
                                     ELSE workspace[q]]
                  /\ writers' = [writers EXCEPT ![out] = @ \cup {r}]
                  /\ robbed' = robbed \cup RobbedBy(r, temps \cup {out})
             ELSE UNCHANGED <<workspace, writers, robbed>>
  /\ UNCHANGED <<asm, pipe, srcv, prb, nrm, rty>>

\* finally: cleanup_runtime_files removes the runtime directories, which all
\* runs share
RunCleanup(r) ==
  /\ run_pc[r] = "cleanup"
  /\ run_pc' = [run_pc EXCEPT ![r] = "done"]
  /\ workspace' = [q \in Paths |-> 0]
  /\ robbed' = robbed \cup RobbedBy(r, Paths)
  /\ UNCHANGED <<asm, pipe, srcv, prb, nrm, rty, run_second, writers>>

ConcurrentNext ==
  \E r \in Runs :
    \/ RunStart(r) \/ RunScale(r) \/ RunLoop(r) \/ RunWriteList(r)
    \/ RunConcat(r) \/ RunCleanup(r)

ConcurrentSpec == ConcurrentInit /\ [][ConcurrentNext]_vars

\* C13: two runs executing concurrently never write the same path, and no
\* run's file is overwritten or deleted by the other run before the run that
\* wrote it has consumed it.
C13_RunsNeverCollide ==
  /\ \A path \in Paths : Cardinality(writers[path]) <= 1
  /\ robbed = {}

\* ------------------------------------------------------------ clip sourcing
SourcingFunctions == {"source_visual_assets", "download_source_clips"}

\* VideoSourceType
VideoSourceTypes ==
  {"STOCK_FOOTAGE_PEXELS_PIXABAY", "STOCK_FOOTAGE_PEXELS_ONLY",
   "STOCK_FOOTAGE_PIXABAY_ONLY", "AI_GENERATED_IMAGES", "AI_GENERATED_VIDEOS"}

StockTypes ==
  {"STOCK_FOOTAGE_PEXELS_PIXABAY", "STOCK_FOOTAGE_PEXELS_ONLY",
   "STOCK_FOOTAGE_PIXABAY_ONLY"}

\* a candidate: whether the file has an audio stream, and whether it lasts
\* longer than max_clip_duration_s
Candidate == [has_audio : BOOLEAN, long : BOOLEAN]

CandidateLists == UNION {[1..n -> Candidate] : n \in 0..MaxCandidates}

\* the entry appended to the sourced set for candidate k
SourcedClip(k, audio, exists, long) ==
  [id |-> k, audio |-> audio, exists |-> exists, long |-> long]

\* the generators are called once per requested asset (range(num_assets))
SourcingInit ==
  /\ RetryIdle
  /\ NormalizeIdle
  /\ ProbeIdle
  /\ AssemblyIdle
  /\ PipelineIdle
  /\ ConcurrentIdle
  /\ sourcing_fn \in SourcingFunctions
  /\ video_source_type \in VideoSourceTypes
  /\ num_assets \in 1..MaxAssets
  /\ candidates \in CandidateLists
  /\ video_source_type \notin StockTypes => Len(candidates) = num_assets
  /\ src_pc = "gather"
  /\ src_k = 1
  /\ sourced_files = <<>>
  /\ probe_failed = {}
  /\ final_processed_clips = <<>>
  /\ sourcing_result = "pending"
  /\ inject_out = "pending"
  /\ silent_audio = "absent"

\* the gathering loops run while candidates are left and fewer than num_assets
\* clips have been sourced
Gathering ==
  /\ src_pc = "gather"
  /\ src_k <= Len(candidates)
  /\ Len(sourced_files) < num_assets
  /\ ~(sourcing_fn = "source_visual_assets"
       /\ video_source_type = "AI_GENERATED_VIDEOS")

\* inject_silent_audio_if_needed: the input path when ffprobe finds an audio
\* stream; otherwise the silent track is generated and muxed in, both with
\* check_error=True, and the silent_audio file is removed after a mux that
\* returned.  A failed generation may or may not have left a file behind.
InjectSilentAudioIfNeeded(audio_found, generate_ok, partial, mux_ok) ==
  IF audio_found
    THEN [out |-> "video_path", silent_audio |-> "absent"]
  ELSE IF CheckedCommand(generate_ok) = "raised"
    THEN [out |-> "RuntimeError_generate",
          silent_audio |-> IF partial THEN "left" ELSE "absent"]
  ELSE IF CheckedCommand(mux_ok) = "raised"
    THEN [out |-> "RuntimeError_mux", silent_audio |-> "left"]
  ELSE [out |-> "output_path", silent_audio |-> "removed"]

\* source_visual_assets, one candidate of a stock search: download, probe,
\* inject_silent_audio_if_needed.  A clip found to have audio is returned as
\* the input path, appended, and then removed with os.remove(downloaded_path);
\* an exception of the injection leaves the function.
SourceStockAsset ==
  /\ Gathering
  /\ sourcing_fn = "source_visual_assets"
  /\ video_source_type \in StockTypes
  /\ \E downloaded \in BOOLEAN, probe_ok \in BOOLEAN, audio_found \in BOOLEAN,
        generate_ok \in BOOLEAN, partial \in BOOLEAN, mux_ok \in BOOLEAN :
       LET c == candidates[src_k]
           injected == InjectSilentAudioIfNeeded(audio_found, generate_ok,
                                                 partial, mux_ok)
       IN /\ audio_found => c.has_audio
          /\ IF ~downloaded \/ ~probe_ok
             THEN UNCHANGED <<sourced_files, src_pc, sourcing_result,
                              inject_out, silent_audio>>
             ELSE /\ inject_out' = injected.out
                  /\ silent_audio' = injected.silent_audio
                  /\ sourced_files' =
                       CASE injected.out = "video_path" ->
                              Append(sourced_files,
                                     SourcedClip(src_k, TRUE, FALSE, c.long))
                         [] injected.out = "output_path" ->
                              Append(sourced_files,
                                     SourcedClip(src_k, TRUE, TRUE, c.long))
                         [] OTHER -> sourced_files
                  /\ IF injected.out \in {"video_path", "output_path"}
                     THEN UNCHANGED <<src_pc, sourcing_result>>
                     ELSE src_pc' = "done" /\ sourcing_result' = "raised"
  /\ src_k' = src_k + 1
  /\ UNCHANGED <<asm, pipe, conc, prb, nrm, rty, sourcing_fn,
                 video_source_type, num_assets, candidates, probe_failed,
                 final_processed_clips>>

\* source_visual_assets, one AI image: when an image is generated, the
\* conversion moviepy.editor.ImageClip(...).write_videofile(...) raises (the
\* name moviepy is not bound) or hands None to inject_silent_audio_if_needed,
\* which raises in shlex.quote
SourceImageAsset ==
  /\ Gathering
  /\ sourcing_fn = "source_visual_assets"
  /\ video_source_type = "AI_GENERATED_IMAGES"
  /\ \E generated \in BOOLEAN :
       IF generated
       THEN src_pc' = "done" /\ sourcing_result' = "raised"
       ELSE UNCHANGED <<src_pc, sourcing_result>>
  /\ src_k' = src_k + 1
  /\ UNCHANGED <<asm, pipe, conc, prb, nrm, rty, sourcing_fn, video_source_type, num_assets,
                 inject_out, silent_audio,
                 candidates, sourced_files, probe_failed,
                 final_processed_clips>>

\* download_source_clips, one candidate: a stock clip is appended as
\* downloaded, an AI image is turned into a video by ffmpeg -loop 1 (video
\* only) and appended, an AI video is appended as generated
DownloadClip ==
  /\ Gathering
  /\ sourcing_fn = "download_source_clips"
  /\ \E ok \in BOOLEAN :
       LET c == candidates[src_k]
           audio == IF video_source_type = "AI_GENERATED_IMAGES" THEN FALSE
                    ELSE c.has_audio
           long == IF video_source_type \in StockTypes THEN c.long ELSE FALSE
       IN sourced_files' =
            IF ok THEN Append(sourced_files,
                              SourcedClip(src_k, audio, TRUE, long))
            ELSE sourced_files
  /\ src_k' = src_k + 1
  /\ UNCHANGED <<asm, pipe, conc, prb, nrm, rty, sourcing_fn, video_source_type, num_assets,
                 inject_out, silent_audio,
                 candidates, src_pc, probe_failed, final_processed_clips,
                 sourcing_result>>

\* the end of gathering: download_source_clips returns its list;
\* source_visual_assets returns [] for AI videos or when nothing was sourced,
\* and otherwise goes on to post-process the sourced files
EndGather ==
  /\ src_pc = "gather"
  /\ ~Gathering
  /\ IF sourcing_fn = "download_source_clips"
     THEN /\ src_pc' = "done"
          /\ final_processed_clips' = sourced_files
          /\ sourcing_result' = IF sourced_files = <<>> THEN "empty"
                                ELSE "list"
          /\ UNCHANGED src_k
     ELSE /\ UNCHANGED final_processed_clips
          /\ IF sourced_files = <<>>
             THEN /\ src_pc' = "done"
                  /\ sourcing_result' = "empty"
                  /\ UNCHANGED src_k
             ELSE /\ src_pc' = "process"
                  /\ src_k' = 1
                  /\ UNCHANGED sourcing_result
  /\ UNCHANGED <<asm, pipe, conc, prb, nrm, rty, sourcing_fn, video_source_type, num_assets,
                 inject_out, silent_audio,
                 candidates, sourced_files, probe_failed>>

\* a clip whose duration probe gives None is skipped (continue), the others
\* appended
KeepIfProbedAbort(kept, clip, probed) ==
  IF probed THEN Append(kept, clip) ELSE <<>>

KeepIfProbed(kept, clip, probed) ==
  IF probed THEN Append(kept, clip) ELSE kept

TrimmedCopyUncut(clip) == clip

\* ffmpeg -ss 0 -t max_clip_duration_s -c copy: the head of the clip
TrimmedCopy(clip) == [clip EXCEPT !.long = FALSE]

\* source_visual_assets, one sourced file of the post-processing loop: probe
\* (None for a file that no longer exists), trim when longer than
\* max_clip_duration_s (check_error=True: a failed trim raises), probe the
\* trimmed copy (None makes the log line's format raise), append
ProcessClip ==
  /\ src_pc = "process"
  /\ src_k <= Len(sourced_files)
  /\ \E probe_ok \in BOOLEAN, trim_ok \in BOOLEAN, reprobe_ok \in BOOLEAN :
       LET clip == sourced_files[src_k]
           probed == clip.exists /\ probe_ok
           trimming == probed /\ clip.long
           kept == IF trimming /\ trim_ok THEN TrimmedCopy(clip) ELSE clip
       IN /\ ~clip.exists => probe_ok
          /\ ~trimming => trim_ok
          /\ ~(trimming /\ trim_ok) => reprobe_ok
          /\ probe_failed' = IF probed THEN probe_failed
                             ELSE probe_failed \cup {clip.id}
          /\ IF CheckedCommand(trim_ok) = "raised" \/ ~reprobe_ok
             THEN /\ src_pc' = "done"
                  /\ sourcing_result' = "raised"
                  /\ UNCHANGED final_processed_clips
             ELSE /\ final_processed_clips' =
                       KeepIfProbed(final_processed_clips, kept, probed)
                  /\ UNCHANGED <<src_pc, sourcing_result>>
  /\ src_k' = src_k + 1
  /\ UNCHANGED <<asm, pipe, conc, prb, nrm, rty, sourcing_fn, video_source_type, num_assets,
                 inject_out, silent_audio,
                 candidates, sourced_files>>

\* the end of post-processing: [] when no clip remained
EndProcess ==
  /\ src_pc = "process"
  /\ src_k > Len(sourced_files)
  /\ src_pc' = "done"
  /\ sourcing_result' = IF final_processed_clips = <<>> THEN "empty"
                        ELSE "list"
  /\ UNCHANGED <<asm, pipe, conc, prb, nrm, rty, sourcing_fn, video_source_type, num_assets,
                 inject_out, silent_audio,
                 candidates, src_k, sourced_files, probe_failed,
                 final_processed_clips>>

SourcingNext ==
  \/ SourceStockAsset \/ SourceImageAsset \/ DownloadClip \/ EndGather
  \/ ProcessClip \/ EndProcess

SourcingSpec == SourcingInit /\ [][SourcingNext]_vars

\* C16: every clip of the list that clip sourcing returns has an audio stream.
C16_EverySourcedClipHasAudio ==
  sourcing_result = "list" =>
    \A k \in 1..Len(final_processed_clips) : final_processed_clips[k].audio

\* C18: in source_visual_assets a sourced clip whose duration probe fails is
\* dropped and every other one is kept, in order; the list returned is empty
\* only when no clip remains.
C18_FailedProbeDropsOnlyThatClip ==
  (sourcing_fn = "source_visual_assets" /\ src_pc \in {"process", "done"}
   /\ sourcing_result # "raised" /\ sourced_files # <<>>)
    => LET Probed(c) == c.id \notin probe_failed
           seen == SubSeq(sourced_files, 1, src_k - 1)
           Ids(seq) == [j \in 1..Len(seq) |-> seq[j].id]
       IN /\ Ids(final_processed_clips) = Ids(SelectSeq(seen, Probed))
          /\ src_pc = "done" =>
               /\ seen = sourced_files
               /\ sourcing_result = "empty" <=> final_processed_clips = <<>>
               /\ sourcing_result = "list" <=> final_processed_clips # <<>>

C18_Witness ==
  /\ sourcing_fn = "source_visual_assets"
  /\ src_pc = "done"
  /\ sourcing_result = "list"
  /\ Len(sourced_files) = 2
  /\ sourced_files[1].exists
  /\ sourced_files[1].id \in probe_failed
  /\ Len(final_processed_clips) = 1
  /\ final_processed_clips[1].id = sourced_files[2].id

\* --------------------------------------------------------------- the probes
ProbeFunctions == {"get_video_duration", "get_video_dimensions"}

\* how a command run by subprocess.run can end
CommandExits == {"exit0", "nonzero", "not_found", "timeout"}

\* the fields of the output between 'x' characters
Fields == {"int", "float", "junk", "empty"}

Stdouts == UNION {[1..n -> Fields] : n \in 1..MaxFields}

\* run_shell_command: "returned" when it returns (stdout, stderr, returncode),
\* else the exception that leaves it.  The timeout handler calls result.kill()
\* with result unbound.
RunShellCommandAlwaysChecks(exit, checked) ==
  IF exit = "exit0" THEN "returned" ELSE "RuntimeError"

RunShellCommand(exit, checked) ==
  CASE exit = "exit0" -> "returned"
    [] exit = "nonzero" -> IF checked THEN "RuntimeError" ELSE "returned"
    [] exit = "not_found" -> "RuntimeError"
    [] exit = "timeout" -> "UnboundLocalError"

\* float(stdout.strip()) raises ValueError unless the output is one number
ParsesAsFloat(stdout) ==
  Len(stdout) = 1 /\ stdout[1] \in {"int", "float"}

\* width, height = map(int, stdout.split('x')) raises ValueError unless the
\* output is exactly two integers
ParsesAsDimensions(stdout) ==
  Len(stdout) = 2 /\ \A j \in 1..2 : stdout[j] = "int"

\* what a probe does with the command's result: None on a non-zero exit or
\* a ValueError from parsing; an exception from run_shell_command propagates
ProbeResult(exit, parses) ==
  IF RunShellCommand(exit, FALSE) # "returned" THEN "raised"
  ELSE IF exit # "exit0" THEN "None"
  ELSE IF parses THEN "value" ELSE "None"

\* a file that does not exist makes ffprobe exit non-zero
ProbeInit ==
  /\ RetryIdle
  /\ NormalizeIdle
  /\ AssemblyIdle
  /\ PipelineIdle
  /\ ConcurrentIdle
  /\ SourcingIdle
  /\ probe_fn \in ProbeFunctions
  /\ path_exists \in BOOLEAN
  /\ ffprobe_exit \in CommandExits
  /\ ~path_exists => ffprobe_exit # "exit0"
  /\ ffprobe_stdout \in Stdouts
  /\ probe_out = "pending"
  /\ check_error \in BOOLEAN
  /\ shell_out = "pending"

GetVideoDuration ==
  /\ probe_fn = "get_video_duration"
  /\ probe_out = "pending"
  /\ probe_out' = IF ~path_exists THEN "None"
                  ELSE ProbeResult(ffprobe_exit,
                                   ParsesAsFloat(ffprobe_stdout))
  /\ UNCHANGED <<asm, pipe, conc, srcv, nrm, rty, probe_fn, path_exists,
                 ffprobe_exit, ffprobe_stdout, check_error, shell_out>>

GetVideoDimensions ==
  /\ probe_fn = "get_video_dimensions"
  /\ probe_out = "pending"
  /\ probe_out' = ProbeResult(ffprobe_exit,
                              ParsesAsDimensions(ffprobe_stdout))
  /\ UNCHANGED <<asm, pipe, conc, srcv, nrm, rty, probe_fn, path_exists,
                 ffprobe_exit, ffprobe_stdout, check_error, shell_out>>

\* a call of run_shell_command with the caller's check_error
RunCommand ==
  /\ shell_out = "pending"
  /\ shell_out' = RunShellCommand(ffprobe_exit, check_error)
  /\ UNCHANGED <<asm, pipe, conc, srcv, nrm, rty, probe_fn, path_exists,
                 ffprobe_exit, ffprobe_stdout, probe_out, check_error>>

ProbeNext == GetVideoDuration \/ GetVideoDimensions \/ RunCommand

ProbeSpec == ProbeInit /\ [][ProbeNext]_vars

\* the probe ran ffprobe
RanFfprobe == probe_fn = "get_video_dimensions" \/ path_exists

\* C17: for a path that does not exist, a non-zero ffprobe exit, or output
\* that does not parse, the probes return None and do not raise.
C17_ProbesReturnNone ==
  probe_out # "pending" =>
    /\ (~path_exists /\ ffprobe_exit = "nonzero") => probe_out = "None"
    /\ (probe_fn = "get_video_duration" /\ ~path_exists)
         => probe_out = "None"
    /\ (RanFfprobe /\ ffprobe_exit = "nonzero") => probe_out = "None"
    /\ (RanFfprobe /\ ffprobe_exit = "exit0"
        /\ probe_fn = "get_video_duration"
        /\ ~ParsesAsFloat(ffprobe_stdout)) => probe_out = "None"
    /\ (RanFfprobe /\ ffprobe_exit = "exit0"
        /\ probe_fn = "get_video_dimensions"
        /\ ~ParsesAsDimensions(ffprobe_stdout)) => probe_out = "None"
    /\ probe_out = "raised" => ffprobe_exit \in {"not_found", "timeout"}

C17_Witness ==
  /\ probe_fn = "get_video_dimensions"
  /\ ~path_exists
  /\ ffprobe_exit = "nonzero"
  /\ probe_out = "None"

\* ------------------------------------------------- the scale / pad command
Max(a, b) == IF a >= b THEN a ELSE b

\* scale=W:H:force_original_aspect_ratio=decrease: the largest size of the
\* source's aspect ratio that fits in the W x H box
FitInBox(sw, sh, boxw, boxh) ==
  IF sw * boxh >= sh * boxw
  THEN <<boxw, Max(1, (boxw * sh) \div sw)>>
  ELSE <<Max(1, (boxh * sw) \div sh), boxh>>

\* scale='min(w,iw)':'min(h,ih)':force_original_aspect_ratio=decrease
ScaledSize(sw, sh, w, h) == FitInBox(sw, sh, Min(w, sw), Min(h, sh))

\* pad=w:h:(ow-iw)/2:(oh-ih)/2: the picture centred on a w x h canvas
PaddedSize(w, h) == <<w, h>>

NormalizeInit ==
  /\ RetryIdle
  /\ AssemblyIdle
  /\ PipelineIdle
  /\ ConcurrentIdle
  /\ SourcingIdle
  /\ ProbeIdle
  /\ iw \in 1..MaxSide
  /\ ih \in 1..MaxSide
  /\ target_width \in 1..MaxSide
  /\ target_height \in 1..MaxSide
  /\ norm_pc = "pending"
  /\ out_size = <<0, 0>>
  /\ picture_size = <<0, 0>>

\* the scale command of the scaling loop succeeds and writes scaled_clip_<i>
ScaleAndPad ==
  /\ norm_pc = "pending"
  /\ norm_pc' = "scaled"
  /\ picture_size' = ScaledSize(iw, ih, target_width, target_height)
  /\ out_size' = PaddedSize(target_width, target_height)
  /\ UNCHANGED <<asm, pipe, conc, srcv, prb, rty, iw, ih, target_width,
                 target_height>>

\* the scale command fails and the clip is dropped
ScaleFails ==
  /\ norm_pc = "pending"
  /\ norm_pc' = "dropped"
  /\ UNCHANGED <<asm, pipe, conc, srcv, prb, rty, iw, ih, target_width,
                 target_height, out_size, picture_size>>

NormalizeNext == ScaleAndPad \/ ScaleFails

NormalizeSpec == NormalizeInit /\ [][NormalizeNext]_vars

\* C22: the normalized clip is exactly w x h and its picture fills the whole
\* w x h frame (the source scaled to cover the box and cropped), with no
\* padding.
C22_CoverAndCrop ==
  norm_pc = "scaled" =>
    /\ out_size = <<target_width, target_height>>
    /\ picture_size = <<target_width, target_height>>

\* C23: run_shell_command returns when the command ends with exit code 0 or
\* check_error is False, raises RuntimeError on a non-zero exit with
\* check_error True or when the executable is not found, and raises
\* subprocess.TimeoutExpired when the command times out.
C23_OutcomeAsDocumented ==
  shell_out # "pending" =>
    shell_out =
      CASE ffprobe_exit = "exit0" -> "returned"
        [] ffprobe_exit = "nonzero" ->
             IF check_error THEN "RuntimeError" ELSE "returned"
        [] ffprobe_exit = "not_found" -> "RuntimeError"
        [] ffprobe_exit = "timeout" -> "TimeoutExpired"

\* C28: every entry of the sourced set of source_visual_assets names a file
\* that exists when the set is post-processed and returned, and a downloaded
\* clip found to have an audio track is in the returned list.
C28_SourcedFilesExist ==
  sourcing_fn = "source_visual_assets" =>
    /\ \A j \in 1..Len(sourced_files) : sourced_files[j].exists
    /\ sourcing_result = "list" =>
         \A j \in 1..Len(sourced_files) :
           \E m \in 1..Len(final_processed_clips) :
             final_processed_clips[m].id = sourced_files[j].id

\* C29: inject_silent_audio_if_needed never ends by raising when the
\* generation or the mux fails, and after the mux, failed or not, no
\* silent_audio file is left.
C29_InjectReturnsNone ==
  /\ inject_out \notin {"RuntimeError_generate", "RuntimeError_mux"}
  /\ inject_out \in {"output_path", "RuntimeError_mux", "None"} =>
       silent_audio # "left"

\* C30: the list source_visual_assets returns has at most num_assets clips,
\* none of them longer than max_clip_duration_s.
C30_AtMostNumAssetsShortClips ==
  (sourcing_fn = "source_visual_assets" /\ sourcing_result = "list") =>
    /\ Len(final_processed_clips) <= num_assets
    /\ \A m \in 1..Len(final_processed_clips) :
         ~final_processed_clips[m].long

C30_Witness ==
  /\ sourcing_fn = "source_visual_assets"
  /\ sourcing_result = "list"
  /\ Len(final_processed_clips) = num_assets
  /\ Len(candidates) > num_assets
  /\ \E m \in 1..Len(final_processed_clips) :
       /\ candidates[final_processed_clips[m].id].long
       /\ ~final_processed_clips[m].long

\* C25: when the narration was synthesized but its duration could not be
\* probed (None), the run goes on to clip sourcing with a target duration of
\* 60 s.
C25_FallbackTo60 ==
  (/\ phases_run # <<>>
   /\ Last(phases_run) = "narration"
   /\ "narration_audio" \in runtime_files
   /\ narration_duration = NoDuration) =>
    /\ phase = "sourcing"
    /\ params_final_video_duration_s = FallbackDuration

\* the file a returned final_video_output_path names
ReturnedFile(path) == IF path = "with_subtitles" THEN "final" ELSE "with_audio"

\* C27: when the run has returned a final video path (not None), the file at
\* that path exists after the return.
C27_ReturnedFileSurvives ==
  (phase = "done" /\ returned \notin {"pending", "None"}) =>
    ReturnedFile(returned) \in runtime_files

\* ------------------------------------------------------ the retry decorator
\* the exceptions a wrapped call can raise, by class
ExceptionClasses == {"RequestException", "OSError", "Exception"}

\* issubclass(a, b): RequestException derives from IOError (OSError), which
\* derives from Exception
IsSubclass(a, b) ==
  \/ a = b
  \/ b = "Exception"
  \/ a = "RequestException" /\ b = "OSError"

\* the default of the catch_errors parameter
DefaultCatchErrors == {"RequestException"}

SynthesisFunctions == {"synthesize_speech_google", "synthesize_speech_gtts"}

RetryFunctions == SynthesisFunctions \cup {"func"}

\* the arguments of the @retry line above each synthesis function
DecoratorArgs(fn) ==
  IF fn = "synthesize_speech_google"
    THEN [max_attempts |-> 3, delay_seconds |-> 3,
          catch_errors |-> DefaultCatchErrors]
    ELSE [max_attempts |-> 3, delay_seconds |-> 2,
          catch_errors |-> DefaultCatchErrors]

\* how one invocation of the wrapped function can end
CallOutcomes == {"return"} \cup ExceptionClasses

\* the synthesis functions catch Exception, log, and re-raise it unchanged
Invoke(fn, outcome) == outcome

\* except catch_errors as e
Caught(e, classes) == \E c \in classes : IsSubclass(e, c)

SleepsAfterAlways(n, max) == TRUE

\* if attempt < max_attempts: time.sleep(delay_seconds)
SleepsAfter(n, max) == n < max

RetryInit ==
  /\ NormalizeIdle
  /\ ProbeIdle
  /\ AssemblyIdle
  /\ PipelineIdle
  /\ ConcurrentIdle
  /\ SourcingIdle
  /\ retry_fn \in RetryFunctions
  /\ IF retry_fn \in SynthesisFunctions
       THEN /\ max_attempts = DecoratorArgs(retry_fn).max_attempts
            /\ delay_seconds = DecoratorArgs(retry_fn).delay_seconds
            /\ catch_errors = DecoratorArgs(retry_fn).catch_errors
       ELSE /\ max_attempts \in 0..MaxAttempts
            /\ delay_seconds \in 1..MaxDelay
            /\ catch_errors \in {{c} : c \in ExceptionClasses}
  /\ attempt = 1
  /\ calls = <<>>
  /\ sleeps = 0
  /\ slept_s = 0
  /\ retry_out = "pending"

\* one iteration of the for loop of wrapper
RetryAttempt ==
  /\ retry_out = "pending"
  /\ attempt <= max_attempts
  /\ \E outcome \in CallOutcomes :
       LET e == Invoke(retry_fn, outcome) IN
       /\ calls' = Append(calls, e)
       /\ IF e = "return"
            THEN /\ retry_out' = "returned"
                 /\ UNCHANGED <<attempt, sleeps, slept_s>>
            ELSE IF ~Caught(e, catch_errors)
            THEN /\ retry_out' = "raised"
                 /\ UNCHANGED <<attempt, sleeps, slept_s>>
            ELSE IF SleepsAfter(attempt, max_attempts)
            THEN /\ sleeps' = sleeps + 1
                 /\ slept_s' = slept_s + delay_seconds
                 /\ attempt' = attempt + 1
                 /\ UNCHANGED retry_out
            ELSE /\ retry_out' = "raised"
                 /\ UNCHANGED <<attempt, sleeps, slept_s>>
  /\ UNCHANGED <<asm, pipe, conc, srcv, prb, nrm, retry_fn, max_attempts,
                 delay_seconds, catch_errors>>

\* the for loop ends without a return or a raise: wrapper returns None
RetryLoopEnds ==
  /\ retry_out = "pending"
  /\ attempt > max_attempts
  /\ retry_out' = "None"
  /\ UNCHANGED <<asm, pipe, conc, srcv, prb, nrm, retry_fn, max_attempts,
                 delay_seconds, catch_errors, attempt, calls, sleeps,
                 slept_s>>

RetryNext == RetryAttempt \/ RetryLoopEnds

RetrySpec == RetryInit /\ [][RetryNext]_vars

\* C24: whatever exception a Google TTS or gTTS synthesis raises, the call
\* that ends with the error reaching the caller has attempted the synthesis
\* 3 times.
C24_AnyExceptionRetried ==
  (retry_fn \in SynthesisFunctions /\ retry_out = "raised") =>
    Len(calls) = DecoratorArgs(retry_fn).max_attempts

\* C26: a function wrapped by retry(max_attempts=n) is invoked at most n
\* times per call; nothing is invoked after an invocation that returned;
\* once the n-th invocation has failed with a caught exception the call has
\* raised; and a delay is taken after every caught failure except the last
\* attempt's.
C26_AtMostNAttempts ==
  /\ Len(calls) <= max_attempts
  /\ \A j \in 1..Len(calls) : calls[j] = "return" => j = Len(calls)
  /\ (calls # <<>> /\ calls[1] = "return") =>
       Len(calls) = 1 /\ retry_out = "returned"
  /\ (Len(calls) = max_attempts /\ calls # <<>> /\ Last(calls) # "return") =>
       retry_out = "raised"
  /\ (retry_out = "raised" /\ Caught(Last(calls), catch_errors)) =>
       Len(calls) = max_attempts
  /\ sleeps = IF retry_out = "pending" \/ calls = <<>>
                THEN Len(calls) ELSE Len(calls) - 1
  /\ slept_s = sleeps * delay_seconds

C26_Witness ==
  /\ retry_out = "raised"
  /\ max_attempts >= 2
  /\ Len(calls) = max_attempts
  /\ Caught(Last(calls), catch_errors)
  /\ sleeps = max_attempts - 1

====
